---- MODULE Spec2Model ----
(***************************************************************************)
(* Session supervisor of wwebjs-api (src/src/sessions.js): the registry of *)
(* external clients, setup / restore / reload / destroy / delete / flush,  *)
(* the crash-recovery hooks, the liveness check and the folder removal.    *)
(* One action per handler step between two awaits; the external client and *)
(* the filesystem answer nondeterministically.                             *)
(***************************************************************************)
EXTENDS Integers, Sequences, FiniteSets, TLC

\* ------------------------------------------------------------------ bounds
MaxClients == 2      \* Clients alive, or still referred to, at the same time

\* -------------------------------------------------------- program constants
MaxDelay == 10       \* one-second polls of pupBrowser.isConnected()
MaxRetry == 2        \* value of maxRetry at which the probe loop gives up

\* ------------------------------------------------------------ names, paths
\* A name is a sequence of characters, a path a sequence of names.
SessionPrefix == <<"s", "e", "s", "s", "i", "o", "n", "-">>
Sep == "/"
IdA == <<"a">>
IdB == <<"b">>
Ids == {IdA, IdB}
NoId == <<>>
Scratch == <<"s", "c", "r", "a", "t", "c", "h">>

\* crafted ids, used to call deleteSessionFolder directly
IdNested == <<"a", "/", "k">>
IdSelf == <<"a", "/", ".", ".">>
IdParent == <<"a", "/", ".", ".", "/", ".", ".">>
IdSibling == <<"a", "/", ".", ".", "/", ".", ".", "/", "s", "x">>
IdLink == <<"l">>
IdAbsent == <<"n">>
CraftedIds == {IdA, IdB, IdNested, IdSelf, IdParent, IdSibling, IdLink, IdAbsent}

Top == << <<"d">> >>
sessionFolderPath == << <<"d">>, <<"s">> >>
SiblingDir == << <<"d">>, <<"s", "x">> >>
OutsideDir == << <<"d">>, <<"o">> >>

SessionName(id) == SessionPrefix \o id
FolderOf(id) == Append(sessionFolderPath, SessionName(id))

\* String.prototype.startsWith
StartsWith(s, pre) == Len(s) >= Len(pre) /\ SubSeq(s, 1, Len(pre)) = pre

\* file.match(/^session-(.+)$/) and its capture group
\* a pattern that also takes the bare prefix: /^session-(.*)$/
MatchPrefix(name) == StartsWith(name, SessionPrefix)
Match(name) == StartsWith(name, SessionPrefix) /\ Len(name) > Len(SessionPrefix)
MatchId(name) == SubSeq(name, Len(SessionPrefix) + 1, Len(name))

\* the segments of a name, split at the separator
RECURSIVE SplitFrom(_, _, _)
SplitFrom(s, k, cur) ==
  IF k > Len(s) THEN <<cur>>
  ELSE IF s[k] = Sep THEN <<cur>> \o SplitFrom(s, k + 1, <<>>)
  ELSE SplitFrom(s, k + 1, Append(cur, s[k]))
Split(s) == SplitFrom(s, 1, <<>>)

\* path.normalize on the segments of an absolute path
RECURSIVE NormalizeFrom(_, _)
NormalizeFrom(done, rest) ==
  IF rest = <<>> THEN done
  ELSE LET h == Head(rest) IN
    IF h = <<>> \/ h = <<".">> THEN NormalizeFrom(done, Tail(rest))
    ELSE IF h = <<".", ".">>
      THEN NormalizeFrom(IF done = <<>> THEN done ELSE SubSeq(done, 1, Len(done) - 1), Tail(rest))
    ELSE NormalizeFrom(Append(done, h), Tail(rest))

\* path.join(root, name)
PathJoin(root, name) == NormalizeFrom(<<>>, root \o Split(name))

\* the string of an absolute path
RECURSIVE Render(_)
Render(p) == IF p = <<>> THEN <<>> ELSE <<Sep>> \o Head(p) \o Render(Tail(p))

IsUnder(p, dir) == Len(p) >= Len(dir) /\ SubSeq(p, 1, Len(dir)) = dir

LinkTarget(lk, p) == (CHOOSE l \in lk : l[1] = p)[2]
IsLink(lk, p) == \E l \in lk : l[1] = p

\* fs.promises.realpath: follows symbolic links, fails (ENOENT) on a missing entry
RECURSIVE Resolve(_, _, _, _)
Resolve(fsys, lk, done, rest) ==
  IF rest = <<>> THEN [ok |-> TRUE, path |-> done]
  ELSE LET next == Append(done, Head(rest)) IN
    IF IsLink(lk, next)
      THEN IF LinkTarget(lk, next) \notin fsys THEN [ok |-> FALSE, path |-> <<>>]
           ELSE Resolve(fsys, lk, LinkTarget(lk, next), Tail(rest))
    ELSE IF next \notin fsys THEN [ok |-> FALSE, path |-> <<>>]
    ELSE Resolve(fsys, lk, next, Tail(rest))
realpath(fsys, lk, p) == Resolve(fsys, lk, <<>>, p)

\* the session folder made by the client's auth strategy while it initializes
mkdir(fsys, p) == fsys \cup {p}

\* fs.promises.rm(p, { recursive: true, force: true })
rm(fsys, p) == {q \in fsys : ~IsUnder(q, p)}

\* the prefix test with and without the separator appended to the root
startsWithNoSep(target, root) == StartsWith(Render(target), Render(root))
startsWithSafe(target, root) == StartsWith(Render(target), Render(root) \o <<Sep>>)

\* the guard of deleteSessionFolder: the resolved target lies under root + path.sep
InsideRoot(target, root) == startsWithSafe(target, root)

\* deleteSessionFolder(sessionId): the filesystem afterwards and the error thrown
deleteSessionFolder(fsys, lk, id) ==
  LET targetDirPath == PathJoin(sessionFolderPath, SessionName(id))
      resolvedTarget == realpath(fsys, lk, targetDirPath)
      resolvedRoot == realpath(fsys, lk, sessionFolderPath)
  IN IF ~resolvedTarget.ok \/ ~resolvedRoot.ok THEN [fs |-> fsys, err |-> "ENOENT"]
     ELSE IF ~InsideRoot(resolvedTarget.path, resolvedRoot.path)
       THEN [fs |-> fsys, err |-> "traversal"]
     ELSE [fs |-> rm(fsys, resolvedTarget.path), err |-> "none"]

\* fs.readdir(sessionFolderPath): the entries of the root, in directory order
DirOrder == <<Scratch, SessionPrefix, SessionName(IdA), SessionName(IdB), SessionName(IdLink)>>
Entries(fsys, lk) ==
  {p[Len(p)] : p \in {q \in fsys \cup {l[1] : l \in lk} :
                        Len(q) = Len(sessionFolderPath) + 1 /\ IsUnder(q, sessionFolderPath)}}
readdir(fsys, lk) == SelectSeq(DirOrder, LAMBDA nm : nm \in Entries(fsys, lk))


\* ------------------------------------------------------------------- state
VARIABLES
  sessions,         \* the registry: pairs <<sessionId, client handle>> (the Map)
  client,           \* the Clients constructed and still alive or referred to
  procs,            \* the handler invocations suspended at an await
  fs,               \* the directories that exist
  links,            \* the symbolic links: pairs <<path, target>>
  recoverSessions,  \* configuration: bind the crash-recovery hooks
  disabledCallbacks, \* configuration: the event categories that are switched off
  setMessagesAsSeen, \* configuration: acknowledge every inbound message as seen
  enableWebHook,     \* configuration: post the events to the webhook
  last              \* what the step just taken handed back to its caller

vars == <<sessions, client, procs, fs, links, recoverSessions, disabledCallbacks,
          setMessagesAsSeen, enableWebHook, last>>

Handles == 1..MaxClients

\* handler invocations that may be suspended at the same time
Slots == {"first", "second"}
Busy(P) == Cardinality(P) >= Cardinality(Slots)

\* st: "init" while initialize() runs, "live" once it resolved, "failed" once it
\* rejected, "down" once the browser was closed or killed
\* listeners: the event categories a listener is bound for; enabledAtBind: those
\* isEventEnabled answered true for when the listeners were bound; sunk / dropped:
\* the categories of the events handed, or not handed, to the sink so far
\* qr: the stored QR (0: null); qrClearTimeout: the timer the last 'qr' event
\* set (0: none yet); timers: the expiry timers that are pending, each named by
\* the QR it was set for; authenticated: the client has emitted 'authenticated'
NoClient ==
  [id |-> NoId, st |-> "none", closed |-> FALSE, closeHook |-> FALSE, errorHook |-> FALSE,
   listeners |-> {}, enabledAtBind |-> {}, sunk |-> {}, dropped |-> {},
   qr |-> 0, qrClearTimeout |-> 0, timers |-> {}, authenticated |-> FALSE]

\* event categories: two whose listener is bound unconditionally, one whose
\* listener is bound only when the category is enabled
Categories == {"message", "qr", "ready", "auth_failure", "authenticated"}
AlwaysBound == {"message", "qr"}

\* utils.isEventEnabled
isEventEnabled(disabled, event) == event \notin disabled

\* LivenessResult values of validateSession
VConnected == [success |-> TRUE, message |-> "session_connected"]
VNotConnected == [success |-> FALSE, message |-> "session_not_connected"]
VNotFound == [success |-> FALSE, message |-> "session_not_found"]
VTabClosed == [success |-> FALSE, message |-> "browser tab closed"]
VSessionClosed == [success |-> FALSE, message |-> "session closed"]
VError == [success |-> FALSE, message |-> "error"]
NoVal == [success |-> FALSE, message |-> ""]
Validations == {VConnected, VNotConnected, VNotFound, VTabClosed, VSessionClosed, VError}

\* an invocation: its handler (kind), the session and client it works on, where it
\* is suspended (pc), its loop counter (n), the entries its loop has still to visit
\* (todo), deleteOnlyInactive (only), the hook that started it (hook), the
\* teardown it asked of the client (issued), and how its race with a timer (the
\* probe of a check, the browser close of a reload) ended (probe)
NoProc ==
  [kind |-> "", id |-> NoId, c |-> 0, pc |-> "", n |-> 0,
   todo |-> <<>>, only |-> FALSE, hook |-> "", issued |-> "", probe |-> ""]

\* what a step hands back: the handler (kind), its session, the message or outcome
\* (res), how the handler returned in this step, if it did (ret: "ok", "fail" for
\* success=false, "threw", or "none"), the matching entries a flush left
\* unvisited (left), the polls a wait loop made (polls), and deleteOnlyInactive
\* of the flush that made the step (only)
\* of an event step: the payload of the event (data), the attachment of the
\* message (att), the envelopes it handed to axios.post (webhook) and to
\* triggerWebSocket (realtime)
Label(kind, id, res, ret) ==
  [kind |-> kind, id |-> id, res |-> res, ret |-> ret, left |-> 0, polls |-> 0,
   only |-> FALSE, data |-> 0, att |-> "none", webhook |-> <<>>, realtime |-> <<>>]
NoLabel == Label("", NoId, "", "none")

\* what a step of the invocation p hands back
Handed(p, res, ret) == [Label(p.kind, p.id, res, ret) EXCEPT !.only = p.only]

\* ------------------------------------------------------------- the registry
\* sessions.has / sessions.get / sessions.set / sessions.delete
Has(S, i) == \E e \in S : e[1] = i
Get(S, i) == (CHOOSE e \in S : e[1] = i)[2]
sessionsSetKeepOld(S, i, c) == S \cup {<<i, c>>}
sessionsSet(S, i, c) == {e \in S : e[1] # i} \cup {<<i, c>>}
sessionsClear(S, i) == {}
sessionsDelete(S, i) == {e \in S : e[1] # i}

\* A Client that is down or failed and that neither the registry nor an invocation
\* refers to any more is garbage: its handle is free again.
Refs(S, P) == {e[2] : e \in S} \cup {q.c : q \in P}
Collect(cl, S, P) ==
  [h \in Handles |->
     IF cl[h].st \in {"down", "failed"} /\ h \notin Refs(S, P) THEN NoClient ELSE cl[h]]

FreeHandles(cl) == {h \in Handles : cl[h].st = "none"}
NewHandle(cl) == CHOOSE h \in FreeHandles(cl) : \A g \in FreeHandles(cl) : h <= g

\* new Client(clientOptions), about to be initialized
Construct(cl, i) == [cl EXCEPT ![NewHandle(cl)] = [NoClient EXCEPT !.id = i, !.st = "init"]]

\* a teardown that leaves the recovery listeners on the page
RemoveHooksNone(cl, c) == cl

\* pupPage.removeAllListeners('close') and ('error')
RemoveHooks(cl, c) == [cl EXCEPT ![c].closeHook = FALSE, ![c].errorHook = FALSE]

\* initializeEvents, lines 201-219: the hooks are bound when recovery is enabled
BindAlways(cl, c) == [cl EXCEPT ![c].closeHook = TRUE, ![c].errorHook = TRUE]
BindHooks(cl, c) == IF recoverSessions THEN BindAlways(cl, c) ELSE cl

\* initializeEvents, lines 221-437: client.on for 'message' and 'qr' always, for
\* the other categories when isEventEnabled answers true now
BindListeners(cl, c) ==
  LET enabled == {e \in Categories : isEventEnabled(disabledCallbacks, e)} IN
    [cl EXCEPT ![c].listeners = enabled \cup AlwaysBound, ![c].enabledAtBind = enabled]

\* the storage root with an unrelated entry and an entry named by the bare prefix
BaseDirs ==
  {Top, sessionFolderPath, Append(sessionFolderPath, Scratch),
   Append(sessionFolderPath, SessionPrefix)}

\* the module just loaded: an empty registry over whatever folders are on disk
InitRegistry ==
  /\ sessions = {}
  /\ client = [h \in Handles |-> NoClient]
  /\ procs = {}
  /\ fs \in {BaseDirs \cup {FolderOf(i) : i \in I} : I \in SUBSET Ids}
  /\ links = {}
  /\ recoverSessions \in BOOLEAN
  /\ last = NoLabel

\* no event category is switched off, messages are not acknowledged, the
\* webhook is on
Init == InitRegistry /\ disabledCallbacks = {} /\ setMessagesAsSeen = FALSE /\ enableWebHook = TRUE

\* ------------------------------------------------------------ setupSession
\* a setupSession without the guard: the registered session is started anew
SetupCallAnew(i) ==
  /\ Has(sessions, i)
  /\ ~Busy(procs)
  /\ FreeHandles(client) # {}
  /\ client' = Construct(client, i)
  /\ procs' = procs \cup {[NoProc EXCEPT !.kind = "setup", !.id = i,
                                         !.c = NewHandle(client), !.pc = "init"]}
  /\ last' = NoLabel
  /\ UNCHANGED <<sessions, fs, links, recoverSessions, disabledCallbacks, setMessagesAsSeen, enableWebHook>>

\* lines 88-92: the re-entrancy guard answers without touching anything
SetupCall(i) ==
  /\ Has(sessions, i)
  /\ last' = Label("setup", i, "already exists", "fail")
  /\ UNCHANGED <<sessions, client, procs, fs, links, recoverSessions, disabledCallbacks, setMessagesAsSeen, enableWebHook>>

\* lines 93-180: no entry, a Client is constructed and initialize() awaited
SetupInitialize(i) ==
  /\ ~Has(sessions, i)
  /\ ~Busy(procs)
  /\ FreeHandles(client) # {}
  /\ client' = Construct(client, i)
  /\ procs' = procs \cup {[NoProc EXCEPT !.kind = "setup", !.id = i,
                                         !.c = NewHandle(client), !.pc = "init"]}
  /\ last' = NoLabel
  /\ UNCHANGED <<sessions, fs, links, recoverSessions, disabledCallbacks, setMessagesAsSeen, enableWebHook>>

\* restoreSessions, lines 72-80: the loop runs on until a setupSession awaits
\* initialize(); entries that do not match, or whose id is registered, are passed
RECURSIVE RestoreSkip(_, _)
RestoreSkip(todo, S) ==
  IF todo = <<>> THEN <<>>
  ELSE IF Match(Head(todo)) /\ ~Has(S, MatchId(Head(todo))) THEN todo
  ELSE RestoreSkip(Tail(todo), S)

\* the restore loop from the entries todo on (S, cl: the registry and the clients
\* now): over (np empty), or suspended in the next initialize(); ok is false when
\* that needs a handle and none is free
RestoreContinue(p, todo, S, cl) ==
  LET r == RestoreSkip(todo, S) IN
    IF r = <<>> THEN [np |-> {}, cl |-> cl, ok |-> TRUE]
    ELSE IF FreeHandles(cl) = {} THEN [np |-> {}, cl |-> cl, ok |-> FALSE]
    ELSE [np |-> {[p EXCEPT !.id = MatchId(Head(r)), !.c = NewHandle(cl),
                            !.pc = "init", !.todo = Tail(r)]},
          cl |-> Construct(cl, MatchId(Head(r))), ok |-> TRUE]

\* the invocation once the setupSession it awaited has returned
AfterSetup(p, S, cl) ==
  IF p.kind = "restore" THEN RestoreContinue(p, p.todo, S, cl)
  ELSE [np |-> {}, cl |-> cl, ok |-> TRUE]

\* what setupSession's caller gets: setupSession returns its result, reloadSession
\* returns whatever setupSession answered, the loop of restoreSessions drops
\* the result and goes on (lines 72-80), a restart has no caller
SetupLabel(p, res, ret) ==
  IF p.kind = "setup" THEN Label("setup", p.id, res, ret)
  ELSE IF p.kind = "reload" THEN Label("reload", p.id, res, "ok")
  ELSE IF p.kind = "restore" THEN Label("restore", p.id, res, "none")
  ELSE NoLabel

\* a setupSession that closes the client whose entry it replaces
InitOkReplaces(p) ==
  /\ p \in procs /\ p.pc = "init"
  /\ LET cl0 == [h \in Handles |->
                  IF <<p.id, h>> \in sessions THEN [client[h] EXCEPT !.st = "down"]
                  ELSE client[h]]
         cl1 == BindHooks(BindListeners([cl0 EXCEPT ![p.c].st = "live"], p.c), p.c)
         S1 == sessionsSet(sessions, p.id, p.c)
         k == AfterSetup(p, S1, Collect(cl1, S1, procs \ {p}))
     IN /\ k.ok
        /\ sessions' = S1
        /\ client' = k.cl
        /\ procs' = (procs \ {p}) \cup k.np
  /\ fs' = mkdir(fs, FolderOf(p.id))
  /\ last' = SetupLabel(p, "Session initiated successfully", "ok")
  /\ UNCHANGED <<links, recoverSessions, disabledCallbacks, setMessagesAsSeen, enableWebHook>>

\* lines 180-191: initialize() resolved; events bound, then the handle is registered
InitOk(p) ==
  /\ p \in procs /\ p.pc = "init"
  /\ LET cl1 == BindHooks(BindListeners([client EXCEPT ![p.c].st = "live"], p.c), p.c)
         S1 == sessionsSet(sessions, p.id, p.c)
         k == AfterSetup(p, S1, Collect(cl1, S1, procs \ {p}))
     IN /\ k.ok
        /\ sessions' = S1
        /\ client' = k.cl
        /\ procs' = (procs \ {p}) \cup k.np
  /\ fs' = mkdir(fs, FolderOf(p.id))
  /\ last' = SetupLabel(p, "Session initiated successfully", "ok")
  /\ UNCHANGED <<links, recoverSessions, disabledCallbacks, setMessagesAsSeen, enableWebHook>>

\* a setupSession that registers the handle before initialize() has settled
InitFailRegisters(p) ==
  /\ p \in procs /\ p.pc = "init"
  /\ sessions' = sessionsSet(sessions, p.id, p.c)
  /\ client' = [client EXCEPT ![p.c].st = "failed"]
  /\ procs' = procs \ {p}
  /\ fs' = mkdir(fs, FolderOf(p.id))
  /\ last' = SetupLabel(p, "error", "fail")
  /\ UNCHANGED <<links, recoverSessions, disabledCallbacks, setMessagesAsSeen, enableWebHook>>

\* a failed setupSession that ends the invocation that awaited it
InitFailAborts(p) ==
  /\ p \in procs /\ p.pc = "init"
  /\ procs' = procs \ {p}
  /\ client' = Collect([client EXCEPT ![p.c].st = "failed"], sessions, procs')
  /\ fs' = mkdir(fs, FolderOf(p.id))
  /\ last' = SetupLabel(p, "error", "fail")
  /\ UNCHANGED <<sessions, links, recoverSessions, disabledCallbacks, setMessagesAsSeen, enableWebHook>>

\* lines 181-184, 192-194: initialize() rejected; success=false is returned
InitFail(p) ==
  /\ p \in procs /\ p.pc = "init"
  /\ LET cl1 == [client EXCEPT ![p.c].st = "failed"]
         k == AfterSetup(p, sessions, Collect(cl1, sessions, procs \ {p}))
     IN /\ k.ok
        /\ client' = k.cl
        /\ procs' = (procs \ {p}) \cup k.np
  /\ fs' = mkdir(fs, FolderOf(p.id))
  /\ last' = SetupLabel(p, "error", "fail")
  /\ UNCHANGED <<sessions, links, recoverSessions, disabledCallbacks, setMessagesAsSeen, enableWebHook>>

\* ------------------------------------------------------- recovery hooks
\* lines 203-207, restartSession up to its await on client.destroy()
Restart(c, hook) ==
  [NoProc EXCEPT !.kind = "restart", !.id = client[c].id, !.c = c,
                 !.pc = "rdestroy", !.hook = hook]

\* a 'close' listener that restarts without removing the entry first
PageCloseKeep(c) ==
  /\ client[c].st = "live" /\ ~client[c].closed
  /\ IF client[c].closeHook
       THEN /\ ~Busy(procs)
            /\ client' = [client EXCEPT ![c].closed = TRUE, ![c].closeHook = FALSE]
            /\ procs' = procs \cup {Restart(c, "close")}
       ELSE /\ client' = [client EXCEPT ![c].closed = TRUE]
            /\ UNCHANGED procs
  /\ last' = NoLabel
  /\ UNCHANGED <<sessions, fs, links, recoverSessions, disabledCallbacks, setMessagesAsSeen, enableWebHook>>

\* the browser page closes (lines 208-212: the 'close' listener, bound with once)
PageClose(c) ==
  /\ client[c].st = "live" /\ ~client[c].closed
  /\ IF client[c].closeHook
       THEN /\ ~Busy(procs)
            /\ client' = [client EXCEPT ![c].closed = TRUE, ![c].closeHook = FALSE]
            /\ sessions' = sessionsDelete(sessions, client[c].id)
            /\ procs' = procs \cup {Restart(c, "close")}
       ELSE /\ client' = [client EXCEPT ![c].closed = TRUE]
            /\ UNCHANGED <<sessions, procs>>
  /\ last' = NoLabel
  /\ UNCHANGED <<fs, links, recoverSessions, disabledCallbacks, setMessagesAsSeen, enableWebHook>>

\* the browser page crashes (lines 213-217: the 'error' listener, bound with once)
PageError(c) ==
  /\ client[c].st = "live" /\ client[c].errorHook
  /\ ~Busy(procs)
  /\ client' = [client EXCEPT ![c].errorHook = FALSE]
  /\ sessions' = sessionsDelete(sessions, client[c].id)
  /\ procs' = procs \cup {Restart(c, "error")}
  /\ last' = NoLabel
  /\ UNCHANGED <<fs, links, recoverSessions, disabledCallbacks, setMessagesAsSeen, enableWebHook>>

\* lines 205-206: client.destroy() settled (a rejection is swallowed; a destroy
\* that resolved has closed the page), then setupSession runs up to its guard or
\* to its await on initialize()
RestartDestroyed(p) ==
  /\ p \in procs /\ p.pc = "rdestroy"
  /\ \E threw \in BOOLEAN :
       /\ ~threw => client[p.c].closed
       /\ LET cl1 == [client EXCEPT ![p.c].st = IF threw THEN @ ELSE "down"]
              cl2 == Collect(cl1, sessions, procs \ {p})
          IN IF Has(sessions, p.id)
               THEN /\ client' = cl2
                    /\ procs' = procs \ {p}
               ELSE /\ FreeHandles(cl2) # {}
                    /\ client' = Construct(cl2, p.id)
                    /\ procs' = (procs \ {p}) \cup
                                  {[p EXCEPT !.c = NewHandle(cl2), !.pc = "init", !.n = p.n + 1]}
  /\ last' = NoLabel
  /\ UNCHANGED <<sessions, fs, links, recoverSessions, disabledCallbacks, setMessagesAsSeen, enableWebHook>>

\* ----------------------------------------------------------- reloadSession
\* lines 464-467: no entry, nothing is done
ReloadAbsent(i) ==
  /\ ~Has(sessions, i)
  /\ last' = Label("reload", i, "absent", "ok")
  /\ UNCHANGED <<sessions, client, procs, fs, links, recoverSessions, disabledCallbacks, setMessagesAsSeen, enableWebHook>>

\* lines 464-471: the hooks are removed and the pages are asked for
ReloadCall(i) ==
  /\ Has(sessions, i)
  /\ ~Busy(procs)
  /\ client' = RemoveHooks(client, Get(sessions, i))
  /\ procs' = procs \cup {[NoProc EXCEPT !.kind = "reload", !.id = i,
                                         !.c = Get(sessions, i), !.pc = "closing"]}
  /\ last' = NoLabel
  /\ UNCHANGED <<sessions, fs, links, recoverSessions, disabledCallbacks, setMessagesAsSeen, enableWebHook>>

\* lines 471-482: what the browser is after the close attempt. The race with the
\* five-second timer resolves on a timeout, so the catch (and its kill) is entered
\* only when pages(), page.close() or browser.close() rejects.
AfterClose(c, out, hasProcess) ==
  IF out = "closed" THEN [c EXCEPT !.closed = TRUE, !.st = "down"]
  ELSE IF out = "timeout" THEN [c EXCEPT !.closed = TRUE]
  ELSE IF hasProcess THEN [c EXCEPT !.st = "down"]
  ELSE c

\* a reloadSession that runs setupSession with the old entry still in the
\* registry: setupSession answers "already exists"
ReloadClosedKeep(p) ==
  /\ p \in procs /\ p.pc = "closing"
  /\ \E out \in {"closed", "timeout", "threw"}, hasProcess \in BOOLEAN :
       client' = [client EXCEPT ![p.c] = AfterClose(@, out, hasProcess)]
  /\ procs' = procs \ {p}
  /\ last' = Label("reload", p.id, "already exists", "ok")
  /\ UNCHANGED <<sessions, fs, links, recoverSessions, disabledCallbacks, setMessagesAsSeen, enableWebHook>>

\* lines 483-484: the entry is removed and setupSession run up to initialize()
ReloadClosed(p) ==
  /\ p \in procs /\ p.pc = "closing"
  /\ sessions' = sessionsDelete(sessions, p.id)
  /\ \E out \in {"closed", "timeout", "threw"}, hasProcess \in BOOLEAN :
       LET cl1 == [client EXCEPT ![p.c] = AfterClose(@, out, hasProcess)]
           cl2 == Collect(cl1, sessions', procs \ {p})
       IN /\ FreeHandles(cl2) # {}
          /\ client' = Construct(cl2, p.id)
          /\ procs' = (procs \ {p}) \cup
                        {[p EXCEPT !.c = NewHandle(cl2), !.pc = "init", !.probe = out]}
  /\ last' = NoLabel
  /\ UNCHANGED <<fs, links, recoverSessions, disabledCallbacks, setMessagesAsSeen, enableWebHook>>

\* ---------------------------------------- destroySession and deleteSession
\* lines 493-496, 520-523: no entry, nothing is done
DestroyAbsent(i) ==
  /\ ~Has(sessions, i)
  /\ last' = Label("destroy", i, "absent", "ok")
  /\ UNCHANGED <<sessions, client, procs, fs, links, recoverSessions, disabledCallbacks, setMessagesAsSeen, enableWebHook>>

\* a deleteSession that goes on to the folder although no client is registered
DeleteAbsentRemoves(i) ==
  /\ ~Has(sessions, i)
  /\ fs' = rm(fs, FolderOf(i))
  /\ last' = Label("delete", i, "absent", "ok")
  /\ UNCHANGED <<sessions, client, procs, links, recoverSessions, disabledCallbacks, setMessagesAsSeen, enableWebHook>>

DeleteAbsent(i) ==
  /\ ~Has(sessions, i)
  /\ last' = Label("delete", i, "absent", "ok")
  /\ UNCHANGED <<sessions, client, procs, fs, links, recoverSessions, disabledCallbacks, setMessagesAsSeen, enableWebHook>>

\* lines 531-539: which teardown deleteSession asks of the client
DeleteBranch(validation) ==
  IF validation.success THEN "logout"
  ELSE IF validation.message = "session_not_connected" THEN "destroy"
  ELSE "none"

\* lines 506-510, 541-545: the polls made when the browser first reports
\* disconnected at poll d (d > MaxDelay: it never does within the wait)
\* a wait that goes on for as long as the browser reports connected
RECURSIVE WaitLoopUnbounded(_, _)
WaitLoopUnbounded(d, maxDelay) ==
  IF maxDelay < d THEN WaitLoopUnbounded(d, maxDelay + 1) ELSE maxDelay

RECURSIVE WaitLoop(_, _)
WaitLoop(d, maxDelay) ==
  IF maxDelay < d /\ maxDelay < MaxDelay THEN WaitLoop(d, maxDelay + 1) ELSE maxDelay

\* the polls at which the browser is taken to report disconnected
Disconnects == {0, 1, MaxDelay, MaxDelay + 1}

\* The await on terminateWebSocketServer (lines 499-503, 526-530; a rejection is
\* only logged) separates the removal of the hooks from a call that changes nothing
\* by itself, so both are one step. The sleeps of the wait loop change nothing
\* either: the wait is one suspended state, left when the loop ends.

\* the invocation p after lines 520-539 for the registered id i: logout() or
\* destroy() is awaited, or, with neither asked, the wait for disconnection
\* a deleteSession that skips the wait for disconnection when no teardown is asked
AskTeardownNoWait(p, i, branch) ==
  [p EXCEPT !.id = i, !.c = Get(sessions, i), !.issued = branch,
            !.pc = IF branch = "none" THEN "rm" ELSE "teardown"]

AskTeardown(p, i, branch) ==
  [p EXCEPT !.id = i, !.c = Get(sessions, i), !.issued = branch,
            !.pc = IF branch = "none" THEN "wait" ELSE "teardown"]

\* lines 493-504: the hooks are removed, client.destroy() is awaited
DestroyCall(i) ==
  /\ Has(sessions, i)
  /\ ~Busy(procs)
  /\ client' = RemoveHooks(client, Get(sessions, i))
  /\ procs' = procs \cup {AskTeardown([NoProc EXCEPT !.kind = "destroy"], i, "destroy")}
  /\ last' = NoLabel
  /\ UNCHANGED <<sessions, fs, links, recoverSessions, disabledCallbacks, setMessagesAsSeen, enableWebHook>>

\* lines 520-539, called with the liveness result val
DeleteCall(i, val) ==
  /\ Has(sessions, i)
  /\ ~Busy(procs)
  /\ client' = RemoveHooks(client, Get(sessions, i))
  /\ procs' = procs \cup {AskTeardown([NoProc EXCEPT !.kind = "delete"], i, DeleteBranch(val))}
  /\ last' = NoLabel
  /\ UNCHANGED <<sessions, fs, links, recoverSessions, disabledCallbacks, setMessagesAsSeen, enableWebHook>>

\* the admin route POST /:id/terminate, whose database row, when found, names the
\* session i. It calls deleteSession(sessionId) with no liveness result: the
\* hooks of a registered client are removed (lines 524-525), validation.success
\* at line 531 throws a TypeError, deleteSession rethrows it, the route's catch
\* swallows it and the route answers that the session was terminated.
TerminateCall(i) ==
  /\ \E found \in BOOLEAN :
       IF ~found
         THEN /\ last' = Label("terminate", i, "Session not found", "fail")
              /\ UNCHANGED client
         ELSE /\ last' = Label("terminate", i, "Session terminated successfully", "ok")
              /\ client' = IF Has(sessions, i) THEN RemoveHooks(client, Get(sessions, i))
                            ELSE client
  /\ UNCHANGED <<sessions, procs, fs, links, recoverSessions, disabledCallbacks, setMessagesAsSeen, enableWebHook>>

\* client.logout() / client.destroy() resolved: the browser is closed
TeardownReturn(p) ==
  /\ p \in procs /\ p.pc = "teardown"
  /\ client' = [client EXCEPT ![p.c].st = "down", ![p.c].closed = TRUE]
  /\ procs' = (procs \ {p}) \cup {[p EXCEPT !.pc = "wait"]}
  /\ last' = NoLabel
  /\ UNCHANGED <<sessions, fs, links, recoverSessions, disabledCallbacks, setMessagesAsSeen, enableWebHook>>

RECURSIVE CountMatch(_)
CountMatch(todo) ==
  IF todo = <<>> THEN 0
  ELSE (IF Match(Head(todo)) THEN 1 ELSE 0) + CountMatch(Tail(todo))

\* a handler step threw: deleteSession / destroySession rethrow (lines 512-515,
\* 548-551) and flushSessions rethrows out of its loop (lines 571-574)
Thrown(p, res) ==
  [Handed(p, res, "threw") EXCEPT !.left = CountMatch(p.todo)]

\* a handler that removes the entry before it rethrows
TeardownThrowRemoves(p) ==
  /\ p \in procs /\ p.pc = "teardown"
  /\ sessions' = sessionsDelete(sessions, p.id)
  /\ procs' = procs \ {p}
  /\ client' = Collect(client, sessions', procs')
  /\ last' = Thrown(p, p.issued)
  /\ UNCHANGED <<fs, links, recoverSessions, disabledCallbacks, setMessagesAsSeen, enableWebHook>>

\* client.logout() / client.destroy() rejected: rethrown, the entry stays
TeardownThrow(p) ==
  /\ p \in procs /\ p.pc = "teardown"
  /\ procs' = procs \ {p}
  /\ client' = Collect(client, sessions, procs')
  /\ last' = Thrown(p, p.issued)
  /\ UNCHANGED <<sessions, fs, links, recoverSessions, disabledCallbacks, setMessagesAsSeen, enableWebHook>>

\* a wait loop after which the folder is removed for destroySession as well
WaitEndRemoves(p) ==
  /\ p \in procs /\ p.pc = "wait"
  /\ sessions' = sessionsDelete(sessions, p.id)
  /\ procs' = procs \ {p}
  /\ client' = Collect(client, sessions', procs')
  /\ fs' = rm(fs, FolderOf(p.id))
  /\ last' = Handed(p, "unregistered", "ok")
  /\ UNCHANGED <<links, recoverSessions, disabledCallbacks, setMessagesAsSeen, enableWebHook>>

\* lines 506-511 and 541-547: the wait loop ends, after the polls the browser's
\* answers make it run, and the entry is removed; deleteSession goes on to
\* deleteSessionFolder
WaitEnd(p) ==
  /\ p \in procs /\ p.pc = "wait"
  /\ sessions' = sessionsDelete(sessions, p.id)
  /\ procs' = IF p.kind = "destroy" THEN procs \ {p}
              ELSE (procs \ {p}) \cup {[p EXCEPT !.pc = "rm"]}
  /\ client' = Collect(client, sessions', procs')
  /\ \E d \in Disconnects :
       last' = [Handed(p, "unregistered", IF p.kind = "destroy" THEN "ok" ELSE "none")
                  EXCEPT !.polls = WaitLoop(d, 0)]
  /\ UNCHANGED <<fs, links, recoverSessions, disabledCallbacks, setMessagesAsSeen, enableWebHook>>

\* --------------------------------------------------------- validateSession
\* lines 27-44, after a probe attempt threw: the retry budget, then isClosed()
AfterProbeThrow(p, cl) ==
  IF p.n = MaxRetry THEN [done |-> TRUE, val |-> VSessionClosed, n |-> p.n]
  ELSE IF cl[p.c].closed THEN [done |-> TRUE, val |-> VTabClosed, n |-> p.n + 1]
  ELSE [done |-> FALSE, val |-> NoVal, n |-> p.n + 1]

\* lines 46-56 and 57-60: the result for what getState() answered
StateResult(state) ==
  IF state = "CONNECTED" THEN VConnected
  ELSE IF state = "threw" THEN VError
  ELSE VNotConnected

ProtocolStates == {"CONNECTED", "OPENING", "threw"}

\* ------------------------------------------------------------ flushSessions
\* line 566: is deleteSession called for this result
FlushAll(deleteOnlyInactive, validation) == TRUE
FlushEligible(deleteOnlyInactive, validation) ==
  ~deleteOnlyInactive \/ ~validation.success

\* lines 560-569: entries that do not match are passed; so are ids without a
\* registry entry (validateSession answers session_not_found at once, and
\* deleteSession returns at line 522)
RECURSIVE FlushSkip(_, _)
FlushSkip(todo, S) ==
  IF todo = <<>> THEN <<>>
  ELSE IF Match(Head(todo)) /\ Has(S, MatchId(Head(todo))) THEN todo
  ELSE FlushSkip(Tail(todo), S)

\* deleteSession lines 520-539 inside a flush: the hooks are removed and the
\* teardown asked
EnterDelete(p, i, val, todo, cl) ==
  [np |-> {AskTeardown([p EXCEPT !.n = 0, !.todo = todo, !.probe = ""], i,
                       DeleteBranch(val))},
   cl |-> RemoveHooks(cl, Get(sessions, i))]

\* the flush loop from the entries todo on, up to its next await
FlushContinue(p, todo, cl) ==
  LET r == FlushSkip(todo, sessions) IN
    IF r = <<>> THEN [np |-> {}, cl |-> cl]
    ELSE LET i == MatchId(Head(r)) IN
      \* lines 30-32: a closed tab is answered at once, and line 566 lets every
      \* success=false through
      IF cl[Get(sessions, i)].closed
        THEN EnterDelete(p, i, VTabClosed, Tail(r), cl)
        ELSE [np |-> {[p EXCEPT !.id = i, !.c = Get(sessions, i), !.pc = "probe",
                                !.n = 0, !.todo = Tail(r), !.issued = "", !.probe = ""]},
              cl |-> cl]

\* lines 565-568: validateSession returned val for p.id
FlushDecide(p, val, cl) ==
  IF ~FlushEligible(p.only, val) THEN FlushContinue(p, p.todo, cl)
  ELSE IF ~Has(sessions, p.id) THEN FlushContinue(p, p.todo, cl)
  ELSE EnterDelete(p, p.id, val, p.todo, cl)

\* the invocation after validateSession returned val
AfterValidate(p, val, cl) ==
  IF p.kind = "flush" THEN FlushDecide(p, val, cl) ELSE [np |-> {}, cl |-> cl]

\* the invocation after its deleteSession returned normally
AfterTeardown(p, cl) ==
  IF p.kind = "flush" THEN FlushContinue(p, p.todo, cl) ELSE [np |-> {}, cl |-> cl]

Ret(k) == IF k.np = {} THEN "ok" ELSE "none"

\* line 547: deleteSessionFolder settled
FolderDone(p) ==
  /\ p \in procs /\ p.pc = "rm"
  /\ LET r == deleteSessionFolder(fs, links, p.id) IN
       /\ fs' = r.fs
       /\ IF r.err # "none"
            THEN /\ procs' = procs \ {p}
                 /\ client' = Collect(client, sessions, procs')
                 /\ last' = Thrown(p, r.err)
            ELSE LET k == AfterTeardown(p, client) IN
                 /\ procs' = (procs \ {p}) \cup k.np
                 /\ client' = Collect(k.cl, sessions, procs')
                 /\ last' = Handed(p, "deleted", Ret(k))
  /\ UNCHANGED <<sessions, links, recoverSessions, disabledCallbacks, setMessagesAsSeen, enableWebHook>>

\* flushSessions(deleteOnlyInactive), up to its await on readdir
FlushCall(only) ==
  /\ ~Busy(procs)
  /\ procs' = procs \cup {[NoProc EXCEPT !.kind = "flush", !.only = only, !.pc = "readdir"]}
  /\ last' = NoLabel
  /\ UNCHANGED <<sessions, client, fs, links, recoverSessions, disabledCallbacks, setMessagesAsSeen, enableWebHook>>

\* line 558: readdir resolved, the loop starts
FlushRead(p) ==
  /\ p \in procs /\ p.pc = "readdir" /\ p.kind = "flush"
  /\ LET k == FlushContinue(p, readdir(fs, links), client) IN
       /\ procs' = (procs \ {p}) \cup k.np
       /\ client' = k.cl
       /\ last' = Handed(p, "listed", Ret(k))
  /\ UNCHANGED <<sessions, fs, links, recoverSessions, disabledCallbacks, setMessagesAsSeen, enableWebHook>>

\* a validateSession that drops the entry of a session whose tab is closed
ValidateCallCleans(i) ==
  /\ IF ~Has(sessions, i)
       THEN /\ last' = Label("validate", i, VNotFound.message, "fail")
            /\ UNCHANGED <<procs, sessions>>
       ELSE IF client[Get(sessions, i)].closed
       THEN /\ last' = Label("validate", i, VTabClosed.message, "fail")
            /\ sessions' = sessionsDelete(sessions, i)
            /\ UNCHANGED procs
       ELSE /\ ~Busy(procs)
            /\ procs' = procs \cup {[NoProc EXCEPT !.kind = "validate", !.id = i,
                                       !.c = Get(sessions, i), !.pc = "probe"]}
            /\ last' = NoLabel
            /\ UNCHANGED sessions
  /\ UNCHANGED <<client, fs, links, recoverSessions, disabledCallbacks, setMessagesAsSeen, enableWebHook>>

\* validateSession(sessionId) called directly
ValidateCall(i) ==
  /\ IF ~Has(sessions, i)
       THEN /\ last' = Label("validate", i, VNotFound.message, "fail")
            /\ UNCHANGED procs
       ELSE IF client[Get(sessions, i)].closed
       THEN /\ last' = Label("validate", i, VTabClosed.message, "fail")
            /\ UNCHANGED procs
       ELSE /\ ~Busy(procs)
            /\ procs' = procs \cup {[NoProc EXCEPT !.kind = "validate", !.id = i,
                                       !.c = Get(sessions, i), !.pc = "probe"]}
            /\ last' = NoLabel
  /\ UNCHANGED <<sessions, client, fs, links, recoverSessions, disabledCallbacks, setMessagesAsSeen, enableWebHook>>

\* what validateSession hands back: to its caller, or to the flush loop
ResultLabel(p, val, k) ==
  Handed(p, val.message,
         IF p.kind = "validate" THEN (IF val.success THEN "ok" ELSE "fail") ELSE Ret(k))

\* lines 33-43: the race of evaluate('1') with the one-second timer settled
ProbeEnd(p) ==
  /\ p \in procs /\ p.pc = "probe"
  /\ \E out \in {"resolved", "timeout", "threw"} :
       IF out # "threw"
         THEN /\ procs' = (procs \ {p}) \cup {[p EXCEPT !.pc = "getState", !.probe = out]}
              /\ last' = NoLabel
              /\ UNCHANGED client
         ELSE LET a == AfterProbeThrow(p, client) IN
           IF ~a.done
             THEN /\ procs' = (procs \ {p}) \cup {[p EXCEPT !.n = a.n]}
                  /\ last' = NoLabel
                  /\ UNCHANGED client
             ELSE LET k == AfterValidate([p EXCEPT !.n = a.n], a.val, client) IN
                  /\ procs' = (procs \ {p}) \cup k.np
                  /\ client' = Collect(k.cl, sessions, procs')
                  /\ last' = ResultLabel(p, a.val, k)
  /\ UNCHANGED <<sessions, fs, links, recoverSessions, disabledCallbacks, setMessagesAsSeen, enableWebHook>>

\* a validateSession that lets the rejection of client.getState() through
GetStateEndThrows(p) ==
  /\ p \in procs /\ p.pc = "getState"
  /\ \E state \in ProtocolStates :
       LET val == StateResult(state)
           k == AfterValidate(p, val, client)
       IN /\ procs' = (procs \ {p}) \cup (IF state = "threw" THEN {} ELSE k.np)
          /\ client' = Collect(k.cl, sessions, procs')
          /\ last' = IF state = "threw" THEN Thrown(p, val.message)
                      ELSE ResultLabel(p, val, k)
  /\ UNCHANGED <<sessions, fs, links, recoverSessions, disabledCallbacks, setMessagesAsSeen, enableWebHook>>

\* lines 46-56: client.getState() settled
GetStateEnd(p) ==
  /\ p \in procs /\ p.pc = "getState"
  /\ \E state \in ProtocolStates :
       LET val == StateResult(state)
           k == AfterValidate(p, val, client)
       IN /\ procs' = (procs \ {p}) \cup k.np
          /\ client' = Collect(k.cl, sessions, procs')
          /\ last' = ResultLabel(p, val, k)
  /\ UNCHANGED <<sessions, fs, links, recoverSessions, disabledCallbacks, setMessagesAsSeen, enableWebHook>>

\* line 46: client.getState() is awaited without a timer; the page it evaluates
\* in may never answer, and the promise then never settles
GetStateHang(p) ==
  /\ p \in procs /\ p.pc = "getState"
  /\ procs' = (procs \ {p}) \cup {[p EXCEPT !.pc = "hung"]}
  /\ last' = NoLabel
  /\ UNCHANGED <<sessions, client, fs, links, recoverSessions, disabledCallbacks, setMessagesAsSeen, enableWebHook>>

\* ---------------------------------------------------------- restoreSessions
\* lines 66-70: the root is made when missing, readdir is started
RestoreCall ==
  /\ ~Busy(procs)
  /\ procs' = procs \cup {[NoProc EXCEPT !.kind = "restore", !.pc = "readdir"]}
  /\ fs' = mkdir(fs, sessionFolderPath)
  /\ last' = NoLabel
  /\ UNCHANGED <<sessions, client, links, recoverSessions, disabledCallbacks, setMessagesAsSeen, enableWebHook>>

\* lines 70-80: the readdir callback runs the loop up to its first initialize()
RestoreRead(p) ==
  /\ p \in procs /\ p.pc = "readdir" /\ p.kind = "restore"
  /\ LET k == RestoreContinue(p, readdir(fs, links), sessions, client) IN
       /\ k.ok
       /\ procs' = (procs \ {p}) \cup k.np
       /\ client' = k.cl
  /\ last' = NoLabel
  /\ UNCHANGED <<sessions, fs, links, recoverSessions, disabledCallbacks, setMessagesAsSeen, enableWebHook>>

\* ------------------------------------------------------------ specifications
\* the handlers that change the registry, and the browser events
Lifecycle ==
  \/ \E i \in Ids : SetupInitialize(i)
  \/ \E p \in procs : InitOk(p) \/ InitFail(p)
  \/ \E c \in Handles : PageClose(c) \/ PageError(c)
  \/ \E p \in procs : RestartDestroyed(p)
  \/ \E i \in Ids : ReloadCall(i)
  \/ \E p \in procs : ReloadClosed(p)
  \/ \E i \in Ids : DestroyCall(i)
  \/ \E i \in Ids, val \in Validations : DeleteCall(i, val)
  \/ \E p \in procs : TeardownReturn(p) \/ TeardownThrow(p)
  \/ \E p \in procs : WaitEnd(p) \/ FolderDone(p)
  \/ RestoreCall
  \/ \E p \in procs : RestoreRead(p)

\* the calls that return at their guard
Guarded ==
  \/ \E i \in Ids : SetupCall(i)
  \/ \E i \in Ids : ReloadAbsent(i) \/ DestroyAbsent(i) \/ DeleteAbsent(i)

\* flushSessions and validateSession
Flushing ==
  \/ \E only \in BOOLEAN : FlushCall(only)
  \/ \E p \in procs : FlushRead(p)
  \/ \E p \in procs : ProbeEnd(p) \/ GetStateEnd(p)

Next == Lifecycle

Spec == Init /\ [][Next]_vars

\* every handler, the calls that return at their guard included
NextGuard == Lifecycle \/ Guarded
SpecGuard == Init /\ [][NextGuard]_vars

\* flushSessions over sessions that were set up and whose tabs may have closed
NextFlush ==
  \/ Flushing
  \/ \E i \in Ids : SetupInitialize(i)
  \/ \E p \in procs : InitOk(p) \/ InitFail(p)
  \/ \E c \in Handles : PageClose(c)
  \/ \E p \in procs : TeardownReturn(p) \/ TeardownThrow(p)
  \/ \E p \in procs : WaitEnd(p) \/ FolderDone(p)
\* RECOVER_SESSIONS is off: a closed tab stays closed until a flush finds it
InitFlush == Init /\ ~recoverSessions
SpecFlush == InitFlush /\ [][NextFlush]_vars

\* ------------------------------------------- deleteSessionFolder on its own
\* directories that may exist besides the root: session folders, one nested
\* folder, a sibling of the root whose name starts with the root's name, and a
\* directory elsewhere, each with something inside
OptionalDirs ==
  {FolderOf(IdA), FolderOf(IdB), Append(FolderOf(IdA), <<"k">>),
   Append(SiblingDir, <<"x">>), Append(OutsideDir, <<"y">>)}

\* the entry session-l of the root as a symbolic link, out of the root or into it
LinkSets ==
  {{}, {<<FolderOf(IdLink), OutsideDir>>}, {<<FolderOf(IdLink), FolderOf(IdA)>>}}

InitFS ==
  /\ sessions = {}
  /\ client = [h \in Handles |-> NoClient]
  /\ procs = {}
  /\ fs \in {BaseDirs \cup {SiblingDir, OutsideDir} \cup X : X \in SUBSET OptionalDirs}
  /\ links \in LinkSets
  /\ recoverSessions = FALSE
  /\ disabledCallbacks = {}
  /\ setMessagesAsSeen = FALSE
  /\ enableWebHook = TRUE
  /\ last = NoLabel

\* lines 441-459: deleteSessionFolder(sessionId) from call to return
RemoveCall(id) ==
  /\ LET r == deleteSessionFolder(fs, links, id) IN
       /\ fs' = r.fs
       /\ last' = Label("remove", id, r.err, IF r.err = "none" THEN "ok" ELSE "threw")
  /\ UNCHANGED <<sessions, client, procs, links, recoverSessions, disabledCallbacks, setMessagesAsSeen, enableWebHook>>

NextFS == \E id \in CraftedIds : RemoveCall(id)
SpecFS == InitFS /\ [][NextFS]_vars

\* ------------------------------------------------ validateSession on its own
InitCheck == Init /\ fs = BaseDirs /\ ~recoverSessions

\* the sessions a check is called for, and what their browser does meanwhile
CheckEnvironment ==
  \/ \E i \in Ids : SetupInitialize(i)
  \/ \E p \in procs : InitOk(p)
  \/ \E c \in Handles : PageClose(c)

CheckSteps ==
  \/ \E p \in procs : ProbeEnd(p)
  \/ \E p \in procs : GetStateEnd(p)
  \/ \E p \in procs : GetStateHang(p)

NextCheck == CheckEnvironment \/ CheckSteps \/ \E i \in Ids : ValidateCall(i)
SpecCheck == InitCheck /\ [][NextCheck]_vars

\* One check at a time. The race with the one-second timer always settles, and a
\* getState() that is going to settle does.
CheckIdle == \A p \in procs : p.kind # "validate"
NextCheckOne ==
  \/ CheckEnvironment
  \/ CheckSteps
  \/ CheckIdle /\ \E i \in Ids : ValidateCall(i)
SpecCheckFair ==
  /\ InitCheck /\ [][NextCheckOne]_vars
  /\ WF_vars(\E p \in procs : ProbeEnd(p))
  /\ WF_vars(\E p \in procs : GetStateEnd(p))

\* ------------------------------------------------------ events to the sinks
\* what the messages differ by, and what they may carry: nothing, an attachment
\* under maxAttachmentSize, or a larger one
Payloads == {1, 2}
Attachments == {"none", "small", "large"}

\* the dataType a listener sends for the category of its event: the
\* 'auth_failure' listener sends 'status' (lines 223-224), the others their own
DataType(e) == IF e = "auth_failure" THEN "status" ELSE e

Envelope(id, t, m) == [sessionId |-> id, dataType |-> t, data |-> m]

\* utils.triggerWebhook: with enableWebHook the envelope goes to axios.post,
\* whose promise is left to its then / catch
triggerWebhook(id, t, m) == IF enableWebHook THEN <<Envelope(id, t, m)>> ELSE <<>>

\* triggerWebSocket(sessionId, dataType, data): the realtime sink's
\* publish(sessionId, category, payload), fire-and-forget
triggerWebSocket(id, t, m) == <<Envelope(id, t, m)>>

\* the posts of the client c that have not settled
Posting(c, offers) ==
  {[NoProc EXCEPT !.kind = "webhook", !.id = offers[k].sessionId, !.c = c, !.pc = "post",
                  !.n = offers[k].data, !.hook = offers[k].dataType] : k \in 1..Len(offers)}

\* lines 307, 391: the 'message' and 'qr' listeners ask isEventEnabled at every
\* event; a listener of another category exists only if it was bound, and asks
\* nothing
Delivered(e) == IF e \in AlwaysBound THEN isEventEnabled(disabledCallbacks, e) ELSE TRUE

\* lines 307-320: downloadMedia() is called inside the 'message' gate, for an
\* attachment under the ceiling, when 'media' is enabled
FetchAfter(c, e, m, att) ==
  IF e = "message" /\ isEventEnabled(disabledCallbacks, "message") /\ att = "small"
     /\ isEventEnabled(disabledCallbacks, "media")
    THEN {[NoProc EXCEPT !.kind = "media", !.id = client[c].id, !.c = c, !.pc = "download",
                         !.n = m]}
    ELSE {}

\* an acknowledgment that is sent only when the 'message' category is enabled
SeenWhenEnabled(c, e, m) ==
  IF e = "message" /\ setMessagesAsSeen /\ isEventEnabled(disabledCallbacks, "message")
    THEN {[NoProc EXCEPT !.kind = "seen", !.id = client[c].id, !.c = c, !.pc = "sleep", !.n = m]}
    ELSE {}

\* lines 322-326: after the gate, with setMessagesAsSeen the listener awaits
\* sleep(1000) and then calls sendMessageSeenStatus
SeenAfter(c, e, m) ==
  IF e = "message" /\ setMessagesAsSeen
    THEN {[NoProc EXCEPT !.kind = "seen", !.id = client[c].id, !.c = c, !.pc = "sleep", !.n = m]}
    ELSE {}

\* a 'qr' listener that leaves the previous expiry timer running
clearTimeoutNone(timers, t) == timers

\* lines 380-382: clearTimeout(client.qrClearTimeout)
clearTimeout(timers, t) == timers \ {t}

\* lines 378-390: a 'qr' event cancels the timer of the previous one, stores
\* the QR and sets its expiry timer; line 230: the 'authenticated' listener
\* hands the event on and leaves the stored QR alone
Stored(cl, e, m) ==
  IF e = "qr"
    THEN [cl EXCEPT !.qr = m, !.qrClearTimeout = m,
                    !.timers = clearTimeout(@, cl.qrClearTimeout) \cup {m}]
  ELSE IF e = "authenticated" THEN [cl EXCEPT !.authenticated = TRUE]
  ELSE cl

\* at most one post, one download and one acknowledgment are pending at a time
Room(np) == \A q \in np : \A p \in procs : p.kind # q.kind

\* lines 221-437: the client c emits an event of category e with payload m, a
\* message with the attachment att; the listener runs up to its first await
Emit(c, e, m, att) ==
  /\ client[c].st = "live" /\ e \in client[c].listeners
  /\ att # "none" => e = "message"
  /\ LET id == client[c].id
         delivered == Delivered(e)
         wh == IF delivered THEN triggerWebhook(id, DataType(e), m) ELSE <<>>
         ws == IF delivered THEN triggerWebSocket(id, DataType(e), m) ELSE <<>>
         np == Posting(c, wh) \cup FetchAfter(c, e, m, att) \cup SeenAfter(c, e, m)
     IN /\ Room(np)
        /\ procs' = procs \cup np
        /\ client' = [client EXCEPT ![c] = [Stored(@, e, m) EXCEPT
                                      !.sunk = IF delivered THEN @ \cup {e} ELSE @,
                                      !.dropped = IF delivered THEN @ ELSE @ \cup {e}]]
        /\ last' = [Label("event", id, e, "ok")
                      EXCEPT !.data = m, !.att = att, !.webhook = wh, !.realtime = ws]
  /\ UNCHANGED <<sessions, fs, links, recoverSessions, disabledCallbacks, setMessagesAsSeen, enableWebHook>>

\* lines 385-390: the expiry timer t of the client c fires: a stored QR is
\* removed
QrExpire(c, t) ==
  /\ t \in client[c].timers
  /\ client' = [client EXCEPT ![c].timers = @ \ {t}, ![c].qr = 0]
  /\ last' = [Label("qrexpire", client[c].id, "", "none") EXCEPT !.data = t]
  /\ UNCHANGED <<sessions, procs, fs, links, recoverSessions, disabledCallbacks, setMessagesAsSeen, enableWebHook>>

\* lines 313-318: downloadMedia() settled; resolved, the 'media' envelope goes
\* to both sinks; rejected, the error is logged
DownloadEnd(p, ok) ==
  /\ p \in procs /\ p.pc = "download"
  /\ LET wh == IF ok THEN triggerWebhook(p.id, "media", p.n) ELSE <<>>
         ws == IF ok THEN triggerWebSocket(p.id, "media", p.n) ELSE <<>>
     IN /\ Room(Posting(p.c, wh))
        /\ procs' = (procs \ {p}) \cup Posting(p.c, wh)
        /\ last' = [Label("media", p.id, IF ok THEN "media" ELSE "failed", "ok")
                      EXCEPT !.data = p.n, !.webhook = wh, !.realtime = ws]
  /\ UNCHANGED <<sessions, client, fs, links, recoverSessions, disabledCallbacks, setMessagesAsSeen, enableWebHook>>

\* line 325 and utils.sendMessageSeenStatus: the sleep is over, getChat() and
\* sendSeen() are awaited inside a try whose catch logs
SeenEnd(p, ok) ==
  /\ p \in procs /\ p.pc = "sleep"
  /\ procs' = procs \ {p}
  /\ last' = [Label("seen", p.id, IF ok THEN "sent" ELSE "failed", "ok") EXCEPT !.data = p.n]
  /\ UNCHANGED <<sessions, client, fs, links, recoverSessions, disabledCallbacks, setMessagesAsSeen, enableWebHook>>

\* a post whose rejection nobody handles: it comes back into the emitter,
\* whose listeners are lost
WebhookSettleUnhandled(p, ok) ==
  /\ p \in procs /\ p.pc = "post"
  /\ procs' = procs \ {p}
  /\ client' = IF ok THEN client ELSE [client EXCEPT ![p.c].listeners = {}]
  /\ last' = [Label("webhook", p.id, IF ok THEN "sent" ELSE "failed", IF ok THEN "ok" ELSE "threw")
                EXCEPT !.data = p.n]
  /\ UNCHANGED <<sessions, fs, links, recoverSessions, disabledCallbacks, setMessagesAsSeen, enableWebHook>>

\* utils.triggerWebhook, lines 20-35: axios.post settled; its then and its catch
\* only log and count
WebhookSettle(p, ok) ==
  /\ p \in procs /\ p.pc = "post"
  /\ procs' = procs \ {p}
  /\ last' = [Label("webhook", p.id, IF ok THEN "sent" ELSE "failed", "ok") EXCEPT !.data = p.n]
  /\ UNCHANGED <<sessions, client, fs, links, recoverSessions, disabledCallbacks, setMessagesAsSeen, enableWebHook>>

\* the configuration changes while the process runs: disabledCallbacks is the
\* array isEventEnabled reads at each call
ConfigToggle(e) ==
  /\ disabledCallbacks' = IF e \in disabledCallbacks THEN disabledCallbacks \ {e}
                          ELSE disabledCallbacks \cup {e}
  /\ last' = NoLabel
  /\ UNCHANGED <<sessions, client, procs, fs, links, recoverSessions, setMessagesAsSeen,
               enableWebHook>>

InitEvents ==
  /\ InitRegistry /\ fs = BaseDirs /\ ~recoverSessions
  /\ disabledCallbacks \in SUBSET (Categories \ {"authenticated"})
  /\ setMessagesAsSeen = FALSE /\ enableWebHook = TRUE

\* one session, set up once
SetupOne == procs = {} /\ SetupInitialize(IdA)

NextEvents ==
  \/ SetupOne
  \/ \E p \in procs : InitOk(p)
  \/ \E c \in Handles, e \in Categories \ {"authenticated"} : Emit(c, e, 1, "none")
  \/ \E p \in procs, ok \in BOOLEAN : WebhookSettle(p, ok)
  \/ \E e \in Categories \ {"authenticated"} : ConfigToggle(e)
SpecEvents == InitEvents /\ [][NextEvents]_vars

\* the listeners at work: messages with and without attachments and an
\* authentication failure, under every setting of the 'message' and 'media'
\* gates, of setMessagesAsSeen and of enableWebHook
InitSinks ==
  /\ InitRegistry /\ fs = BaseDirs /\ ~recoverSessions
  /\ disabledCallbacks \in SUBSET {"message", "media"}
  /\ setMessagesAsSeen \in BOOLEAN /\ enableWebHook \in BOOLEAN

NextSinks ==
  \/ SetupOne
  \/ \E p \in procs : InitOk(p)
  \/ \E c \in Handles, e \in {"message", "auth_failure"}, m \in Payloads, att \in Attachments :
       Emit(c, e, m, att)
  \/ \E p \in procs, ok \in BOOLEAN : DownloadEnd(p, ok)
  \/ \E p \in procs, ok \in BOOLEAN : SeenEnd(p, ok)
  \/ \E p \in procs, ok \in BOOLEAN : WebhookSettle(p, ok)
SpecSinks == InitSinks /\ [][NextSinks]_vars

\* the QR challenge: 'qr' events, their expiry timers and 'authenticated',
\* under every setting of the two gates
InitQr ==
  /\ InitRegistry /\ fs = BaseDirs /\ ~recoverSessions
  /\ disabledCallbacks \in SUBSET {"qr", "authenticated"}
  /\ setMessagesAsSeen = FALSE /\ enableWebHook \in BOOLEAN

NextQr ==
  \/ SetupOne
  \/ \E p \in procs : InitOk(p)
  \/ \E c \in Handles, e \in {"qr", "authenticated"}, m \in Payloads : Emit(c, e, m, "none")
  \/ \E c \in Handles, t \in Payloads : QrExpire(c, t)
  \/ ConfigToggle("qr")
  \/ \E p \in procs, ok \in BOOLEAN : WebhookSettle(p, ok)
SpecQr == InitQr /\ [][NextQr]_vars

\* ------------------------------------------------ crash recovery on its own
\* one session with RECOVER_SESSIONS on: its page may crash and close, and the
\* initialize() of a replacement may reject
InitRecover ==
  /\ InitRegistry /\ fs = BaseDirs /\ recoverSessions
  /\ disabledCallbacks = {} /\ setMessagesAsSeen = FALSE /\ enableWebHook = TRUE

NextRecover ==
  \/ SetupOne
  \/ \E p \in procs : InitOk(p) \/ InitFail(p)
  \/ \E c \in Handles : PageClose(c) \/ PageError(c)
  \/ \E p \in procs : RestartDestroyed(p)
SpecRecover == InitRecover /\ [][NextRecover]_vars

\* client.destroy() and client.initialize() settle, and an initialize() that is
\* attempted again and again resolves in the end
SpecRecoverFair ==
  /\ SpecRecover
  /\ WF_vars(\E p \in procs : RestartDestroyed(p))
  /\ WF_vars(\E p \in procs : InitOk(p) \/ InitFail(p))
  /\ SF_vars(\E p \in procs : InitOk(p))

\* ------------------------------------------------ the admin terminate route
\* sessions that are set up, crash and recover while an administrator
\* terminates them
InitAdmin == Init /\ fs = BaseDirs

NextAdmin ==
  \/ \E i \in Ids : SetupInitialize(i)
  \/ \E p \in procs : InitOk(p) \/ InitFail(p)
  \/ \E c \in Handles : PageClose(c)
  \/ \E p \in procs : RestartDestroyed(p)
  \/ \E i \in Ids : TerminateCall(i)
SpecAdmin == InitAdmin /\ [][NextAdmin]_vars

\* ------------------------------------------------------------------- claims
Live(c) == client[c].st = "live"

\* C1: after any interleaving of the handlers and the recovery callbacks there is
\* at most one live external client (initialized, not torn down) per session id.
C1_AtMostOneLive ==
  \A c, d \in Handles : (Live(c) /\ Live(d) /\ client[c].id = client[d].id) => c = d

\* C2: the registry holds at most one handle per session id, and every handle it
\* holds belongs to a client of that id whose initialize() resolved.
C2_RegistryUnique ==
  /\ \A e, f \in sessions : e[1] = f[1] => e = f
  /\ \A e \in sessions : client[e[2]].id = e[1] /\ client[e[2]].st \in {"live", "down"}

\* a second setup of the same id has replaced the entry of the first: both clients
\* are initialized, one handle is registered
C2_Witness ==
  \E e \in sessions : \E d \in Handles :
    d # e[2] /\ Live(d) /\ Live(e[2]) /\ client[d].id = e[1]

\* C3: setupSession(id) while the registry holds id answers success=false with
\* "already exists", starts no invocation that initializes a client for id, and
\* leaves the registry, the clients and the running invocations as they were.
C3_AlreadyExists ==
  [][\A i \in Ids : Has(sessions, i) =>
       /\ \A p \in procs' \ procs : ~(p.kind = "setup" /\ p.id = i)
       /\ (last'.kind = "setup" /\ last'.id = i /\ procs' = procs) =>
            /\ last'.ret = "fail" /\ last'.res = "already exists"
            /\ sessions' = sessions /\ client' = client /\ fs' = fs]_vars

\* the guard has answered for a registered id
C3_Witness ==
  /\ last.kind = "setup" /\ last.res = "already exists"
  /\ Has(sessions, last.id) /\ Live(Get(sessions, last.id))

\* C4: a setupSession that leaves its await on initialize() either registers its
\* handle, now live, and reports success, or reports failure and leaves the
\* registry as it was, without an entry for its handle; entries are only ever
\* added for a client whose initialize() resolved in that step.
C4_RegisterAfterInit ==
  [][/\ \A p \in procs \ procs' :
          (p.kind = "setup" /\ p.pc = "init") =>
            \/ /\ last'.ret = "ok" /\ <<p.id, p.c>> \in sessions'
               /\ client'[p.c].st = "live"
            \/ /\ last'.ret = "fail" /\ last'.kind = "setup" /\ last'.id = p.id
               /\ sessions' = sessions /\ <<p.id, p.c>> \notin sessions'
     /\ \A e \in sessions' \ sessions :
          client[e[2]].st = "init" /\ client'[e[2]].st = "live"]_vars

\* a setup has reported failure and its id has no entry
C4_Witness ==
  last.kind = "setup" /\ last.ret = "fail" /\ last.res = "error" /\ ~Has(sessions, last.id)

\* C5: deleteSession on a registered id asks the client for exactly one of logout
\* (success) and destroy (success=false, whatever the reason).
C5_LogoutOrDestroy ==
  \A p \in procs : p.kind = "delete" => p.issued \in {"logout", "destroy"}

\* C6: when flushSessions(false) has returned normally, no folder matching the
\* prefix is left, orphans included (folders of sessions that are registered or
\* being worked on by now are left aside).
C6_FlushRemovesAll ==
  (last.kind = "flush" /\ last.ret = "ok" /\ ~last.only) =>
    \A i \in Ids : FolderOf(i) \in fs => (Has(sessions, i) \/ \E q \in procs : q.id = i)

\* C7: flushSessions(true) never asks a logout (the teardown of a session that
\* reported success), and the step in which a session reports success leaves the
\* registry, that session's client and the folders as they were.
C7_FlushSelective ==
  /\ [](\A p \in procs : (p.kind = "flush" /\ p.only) => p.issued # "logout")
  /\ [][\A p \in procs \ procs' :
          (p.kind = "flush" /\ p.only /\ p.pc = "getState" /\ last'.kind = "flush"
             /\ last'.id = p.id /\ last'.res = VConnected.message) =>
            /\ sessions' = sessions /\ fs' = fs
            /\ Live(p.c) => client'[p.c] = client[p.c]]_vars

\* a flush(true) has just passed a session that reported success
C7_Witness ==
  /\ last.kind = "flush" /\ last.only /\ last.res = VConnected.message
  /\ Has(sessions, last.id) /\ Live(Get(sessions, last.id))
  /\ FolderOf(last.id) \in fs

\* C8: a flush does not end on the failure of one deletion while matching
\* entries are still to be visited.
C8_BatchContinues ==
  (last.kind = "flush" /\ last.ret = "threw") => last.left = 0

\* C9: with recovery enabled, the restart a 'close' starts has the old handle out
\* of the registry, and its listener spent, while it destroys the old client; it
\* has run no setup then, and exactly one once it awaits initialize().
C9_RecoverOnce ==
  \A p \in procs : (p.kind = "restart" /\ p.hook = "close") =>
    /\ p.pc = "rdestroy" =>
         /\ p.n = 0 /\ ~client[p.c].closeHook
         /\ \A e \in sessions : e[2] # p.c
    /\ p.pc = "init" => (p.n = 1 /\ client[p.c].id = p.id /\ client[p.c].st = "init")
    /\ p.pc \in {"rdestroy", "init"}

\* the setup started by a 'close' is awaiting initialize()
C9_Witness ==
  /\ recoverSessions
  /\ \E p \in procs : p.kind = "restart" /\ p.hook = "close" /\ p.pc = "init" /\ p.n = 1

\* the resolved paths as the removal sees them
ResolvedTarget(id) == realpath(fs, links, PathJoin(sessionFolderPath, SessionName(id)))
ResolvedRoot == realpath(fs, links, sessionFolderPath)
StrictlyNested(p, dir) == IsUnder(p, dir) /\ Len(p) > Len(dir)

\* C10: deleteSessionFolder refuses with the traversal error, deleting nothing,
\* whenever the resolved target is not strictly nested under the resolved root;
\* whatever it deletes lies strictly under the root.
C10_NoTraversal ==
  [][/\ \A q \in fs \ fs' : StrictlyNested(q, ResolvedRoot.path)
     /\ \A id \in CraftedIds :
          (last'.kind = "remove" /\ last'.id = id /\ ResolvedTarget(id).ok
             /\ ~StrictlyNested(ResolvedTarget(id).path, ResolvedRoot.path)) =>
            (last'.res = "traversal" /\ fs' = fs)]_vars

\* a removal was refused for a target that resolves to the root or outside it
C10_Witness ==
  /\ last.kind = "remove" /\ last.res = "traversal"
  /\ last.id = IdSibling /\ Append(SiblingDir, <<"x">>) \in fs

\* the folder of id is neither a directory nor a link
TargetAbsent(id) ==
  LET t == PathJoin(sessionFolderPath, SessionName(id)) IN t \notin fs /\ ~IsLink(links, t)

\* C11: deleteSessionFolder for an id whose folder is absent (never made, or
\* removed by an earlier call) completes without error.
C11_RemoveIdempotent ==
  (last.kind = "remove" /\ TargetAbsent(last.id)) => last.ret = "ok"

AbsentKinds == {"destroy", "delete", "reload"}

\* C12: destroySession, deleteSession and reloadSession for an id without a
\* registry entry return normally, start no invocation that would call the
\* client, and leave the registry, the clients and the folders as they were.
C12_AbsentNoOp ==
  [][\A i \in Ids : ~Has(sessions, i) =>
       /\ Cardinality(procs') > Cardinality(procs) =>
            \A p \in procs' \ procs : ~(p.kind \in AbsentKinds /\ p.id = i)
       /\ (last'.kind \in AbsentKinds /\ last'.id = i /\ procs' = procs) =>
            /\ last'.ret = "ok" /\ last'.res = "absent"
            /\ sessions' = sessions /\ client' = client /\ fs' = fs]_vars

\* deleteSession has returned for an id without an entry whose folder is on disk
C12_Witness ==
  /\ last.kind = "delete" /\ last.res = "absent" /\ last.ret = "ok"
  /\ ~Has(sessions, last.id) /\ FolderOf(last.id) \in fs

\* C13: the gate of a category is what it was when the listeners were bound: a
\* handle never hands the sink an event of a category that was disabled then, and
\* never withholds one of a category that was enabled then.
C13_GateAtBind ==
  \A c \in Handles :
    /\ client[c].sunk \subseteq client[c].enabledAtBind
    /\ client[c].dropped \cap client[c].enabledAtBind = {}

\* C14: validateSession answers success=true only when the probe on the page
\* completed and the state is CONNECTED; a call it answers at once (no entry,
\* tab closed) is answered success=false.
C14_SuccessIffHealthy ==
  [][/\ \A p \in procs \ procs' :
          (p.kind = "validate" /\ last'.kind = "validate" /\ last'.id = p.id
             /\ last'.ret = "ok") =>
            (p.probe = "resolved" /\ last'.res = VConnected.message)
     /\ (last'.kind = "validate" /\ procs' = procs /\ last' # last) => last'.ret = "fail"]_vars

\* C15: a probe that only timed out is never taken for a responsive page: no
\* check goes on to ask the connection state after the timer won the race.
C15_TimeoutNotResponsive ==
  \A p \in procs : p.pc = "getState" => p.probe = "resolved"

\* C16: validateSession never throws: whatever the client does, the caller gets a
\* result, success=true for "session_connected" and success=false otherwise.
C16_NeverThrows ==
  (last.kind = "validate" /\ last.ret # "none") =>
    /\ last.ret \in {"ok", "fail"}
    /\ last.ret = "ok" <=> last.res = VConnected.message

\* getState() rejected and the check answered success=false with the error
C16_Witness ==
  last.kind = "validate" /\ last.ret = "fail" /\ last.res = VError.message

\* C17: a check that was started returns, whatever the client does.
C17_CheckReturns == (~CheckIdle) ~> CheckIdle

\* C18: when the close of the browser has not completed within the five seconds,
\* reloadSession kills the browser process before it removes the entry and runs
\* setupSession: the old client is not left running.
C18_ReloadKills ==
  [][\A q \in procs \ procs', p \in procs' \ procs :
       (q.kind = "reload" /\ q.pc = "closing" /\ p.kind = "reload" /\ p.pc = "init"
          /\ p.id = q.id /\ p.probe = "timeout") =>
         (client'[q.c].st # "live" /\ <<q.id, q.c>> \notin sessions')]_vars

\* C19: a session folder is removed only by the deleteSessionFolder step of a
\* deleteSession (called directly or by a flush), and only that session's folder;
\* every other step leaves all folders in place.
C19_RemovedOnlyByDelete ==
  [][\A q \in fs \ fs' :
       \E p \in procs \ procs' :
         p.pc = "rm" /\ p.kind \in {"delete", "flush"} /\ IsUnder(q, FolderOf(p.id))]_vars

\* destroySession has returned and the folder of its session is still on disk
C19_Witness ==
  last.kind = "destroy" /\ last.ret = "ok" /\ FolderOf(last.id) \in fs

\* C20: once the teardown has returned, destroySession polls at most ten times,
\* then removes the entry whether or not the browser still reports connected:
\* when it returns, the id has no entry.
C20_DestroyBounded ==
  (last.kind = "destroy" /\ last.res = "unregistered") =>
    (last.ret = "ok" /\ last.polls <= MaxDelay /\ ~Has(sessions, last.id))

\* destroySession has returned after ten polls
C20_Witness ==
  /\ last.kind = "destroy" /\ last.res = "unregistered" /\ last.polls = MaxDelay
  /\ ~Has(sessions, last.id)

\* C21: in deleteSession (alone or inside flushSessions) deleteSessionFolder is
\* reached only from the wait for disconnection, after at most MaxDelay polls,
\* in the step that removes the registry entry; while it runs the client it
\* tore down is not registered, and nothing is removed from the storage root
\* except by an invocation that has reached it
C21_RemoveAfterWait ==
  /\ [](\A p \in procs : p.pc = "rm" => \A e \in sessions : e[2] # p.c)
  /\ [][/\ \A p \in procs' \ procs : p.pc = "rm" =>
             /\ \E q \in procs \ procs' : q.pc = "wait" /\ q.c = p.c /\ q.id = p.id
             /\ ~Has(sessions', p.id)
             /\ last'.res = "unregistered" /\ last'.polls \in 0..MaxDelay
        /\ \A d \in fs \ fs' : \E r \in procs : r.pc = "rm" /\ IsUnder(d, FolderOf(r.id))]_vars

C21_Witness ==
  /\ last.kind = "flush" /\ last.res = "unregistered" /\ last.polls = MaxDelay
  /\ \E p \in procs : p.pc = "rm" /\ p.id = last.id /\ FolderOf(p.id) \in fs

\* an entry of the storage root named by the prefix and a non-empty id
IsSessionEntry(name) ==
  \E n \in 1..Len(name) :
    /\ n = Len(SessionPrefix) /\ n < Len(name)
    /\ \A j \in 1..n : name[j] = SessionPrefix[j]
EntryId(name) == [j \in 1..(Len(name) - Len(SessionPrefix)) |-> name[j + Len(SessionPrefix)]]

\* the entries restoreSessions has still to visit when the invocation p resumes
Remaining(p) == IF p.pc = "readdir" THEN readdir(fs, links) ELSE p.todo

\* an entry for which a setupSession call starts no client: it is not a
\* session entry (no call), or its id is registered (the call returns at its guard)
RestorePasses(name, S) == ~IsSessionEntry(name) \/ Has(S, EntryId(name))

\* C22: restoreSessions visits the entries of the storage root in order, each
\* once: whenever it resumes, the next setupSession that starts a client is for
\* the first remaining entry that is the prefix followed by a non-empty id not
\* registered, with that id, the entries after it remain to be visited, and it
\* ends only when every remaining entry is passed; no client is started for any
\* other entry
C22_RestoreSetsUpMatches ==
  [][\A p \in procs \ procs' : p.kind = "restore" =>
       LET L == Remaining(p)
           Q == {q \in procs' \ procs : q.kind = "restore"}
       IN IF Q = {}
            THEN \A j \in 1..Len(L) : RestorePasses(L[j], sessions')
            ELSE \A q \in Q : \E k \in 1..Len(L) :
                   /\ IsSessionEntry(L[k]) /\ q.id = EntryId(L[k])
                   /\ q.pc = "init" /\ client'[q.c].id = q.id
                   /\ q.todo = SubSeq(L, k + 1, Len(L))
                   /\ \A j \in 1..(k - 1) : RestorePasses(L[j], sessions')]_vars

C22_Witness ==
  \E p \in procs :
    /\ p.kind = "restore" /\ p.pc = "init" /\ p.id = IdB /\ p.todo = <<>>
    /\ Has(sessions, IdA) /\ FolderOf(IdA) \in fs
    /\ Append(sessionFolderPath, Scratch) \in fs

\* C23: when the setupSession that restoreSessions awaits answers success=false
\* (initialize() rejected), the loop goes on: if an entry it has still to visit
\* is a session entry whose id is not registered, its setupSession is started
\* in the same step, and nothing is thrown
C23_RestoreGoesOn ==
  [][\A p \in procs \ procs' :
       (p.kind = "restore" /\ p.pc = "init" /\ sessions' = sessions) =>
         /\ last'.ret # "threw"
         /\ (\E j \in 1..Len(p.todo) : ~RestorePasses(p.todo[j], sessions)) =>
              \E q \in procs' \ procs :
                /\ q.kind = "restore" /\ q.pc = "init" /\ q.id # p.id
                /\ \E j \in 1..Len(p.todo) : q.id = EntryId(p.todo[j])]_vars

C23_Witness ==
  /\ last.kind = "restore" /\ last.res = "error" /\ last.id = IdA
  /\ ~Has(sessions, IdA)
  /\ \E p \in procs : p.kind = "restore" /\ p.pc = "init" /\ p.id = IdB

\* C24: a message with an attachment under the ceiling starts the download of
\* the attachment whether or not the 'message' category is enabled (the 'media'
\* category being enabled)
C24_FetchRegardless ==
  (/\ last.kind = "event" /\ last.res = "message" /\ last.att = "small"
   /\ isEventEnabled(disabledCallbacks, "media")) =>
    \E p \in procs : p.kind = "media" /\ p.pc = "download" /\ p.id = last.id /\ p.n = last.data

\* C25: with setMessagesAsSeen every 'message' event leaves exactly one
\* acknowledgment waiting behind the sleep, whatever the 'message' gate says;
\* an acknowledgment is started by nothing else; when its sleep ends it is
\* attempted once, and sent or failed the step returns normally and changes
\* neither the client nor any other pending work
C25_SeenOnce ==
  /\ []((last.kind = "event" /\ last.res = "message" /\ setMessagesAsSeen) =>
         Cardinality({p \in procs : /\ p.kind = "seen" /\ p.pc = "sleep"
                                    /\ p.id = last.id /\ p.n = last.data}) = 1)
  /\ [][/\ \A p \in procs' \ procs : p.kind = "seen" =>
             /\ last'.kind = "event" /\ last'.res = "message" /\ last'.data = p.n
             /\ setMessagesAsSeen
        /\ \A p \in procs \ procs' : p.kind = "seen" =>
             /\ last'.kind = "seen" /\ last'.data = p.n /\ last'.ret = "ok"
             /\ last'.res \in {"sent", "failed"}
             /\ client' = client /\ procs' = procs \ {p}]_vars

\* an acknowledgment has failed for a message whose category is disabled
C25_Witness ==
  /\ last.kind = "seen" /\ last.res = "failed" /\ "message" \in disabledCallbacks
  /\ \E c \in Handles : client[c].st = "live" /\ client[c].id = last.id

C28_OneOfferEach ==
  \A c \in Handles :
    (/\ last.kind = "event" /\ client[c].st = "live" /\ client[c].id = last.id
     /\ enableWebHook
     /\ last.res \in client[c].enabledAtBind
     /\ isEventEnabled(disabledCallbacks, last.res)) =>
      /\ last.webhook = <<Envelope(last.id, last.res, last.data)>>
      /\ last.realtime = <<Envelope(last.id, last.res, last.data)>>

\* C26: setupSession, reloadSession, destroySession and deleteSession do not
\* return normally from a call in which a step on the client failed
C26_FailuresSurface ==
  (last.kind \in {"setup", "reload", "destroy", "delete"} /\ last.res = "error") =>
    last.ret \in {"fail", "threw"}

\* C29: a setupSession(id) that passed the has-check and whose initialize()
\* resolves while the registry holds another handle for id (registered since
\* the check) returns success all the same; the registry then holds its handle
\* for id and no other, and the client whose entry it replaced is as it was,
\* live if it was live, with no entry
C29_OverlapBothSucceed ==
  [][\A p \in procs \ procs' :
       (p.kind = "setup" /\ p.pc = "init" /\ client'[p.c].st = "live") =>
         /\ last'.kind = "setup" /\ last'.id = p.id /\ last'.ret = "ok"
         /\ {e \in sessions' : e[1] = p.id} = {<<p.id, p.c>>}
         /\ \A e \in sessions : e[1] = p.id =>
              /\ e[2] # p.c
              /\ Live(e[2]) => client'[e[2]] = client[e[2]]]_vars

\* the second of two setups of one id has returned success: both clients are
\* live, the later handle is registered, the earlier has no entry
C29_Witness ==
  /\ last.kind = "setup" /\ last.ret = "ok"
  /\ \E e \in sessions : \E d \in Handles :
       /\ e[1] = last.id /\ d # e[2] /\ client[d].id = e[1]
       /\ Live(d) /\ Live(e[2])
       /\ \A f \in sessions : f[2] # d

\* the ids a step is made for: those of the invocations it starts, resumes or
\* ends, that of the call it returns from, and that of a client whose page
\* closes or crashes by itself
Acting ==
  {p.id : p \in (procs \ procs') \cup (procs' \ procs)} \cup {last'.id}
  \cup {client[c].id : c \in {h \in Handles : /\ ~client[h].closed /\ client'[h].closed
                                               /\ client'[h].st = client[h].st}}

\* C30: a step made for other ids leaves everything of the id B as it was: its
\* registry entry, its clients that are live, registered or awaited, and its
\* folder
C30_Independent ==
  [][\A B \in Ids : B \notin Acting =>
       /\ {e \in sessions' : e[1] = B} = {e \in sessions : e[1] = B}
       /\ \A c \in Handles :
            (client[c].id = B /\ (Live(c) \/ c \in Refs(sessions, procs))) =>
              client'[c] = client[c]
       /\ \A d \in (fs \ fs') \cup (fs' \ fs) : ~IsUnder(d, FolderOf(B))]_vars

\* deleteSession has removed the entry and the folder of one id while the
\* other id is registered, live and has its folder
C30_Witness ==
  /\ last.kind = "delete" /\ last.res = "deleted" /\ last.id = IdA
  /\ ~Has(sessions, IdA) /\ FolderOf(IdA) \notin fs
  /\ Has(sessions, IdB) /\ Live(Get(sessions, IdB)) /\ FolderOf(IdB) \in fs

\* the handlers that tear a client down
Teardowns == {"reload", "destroy", "delete"}

\* C31: while reloadSession, destroySession or deleteSession closes or tears
\* down a client, that client's 'close' and 'error' listeners are off, and a
\* restart is started only by a listener that was still on, of a client no such
\* handler is working on: what they do to the browser starts no recovery
C31_NoSelfRecovery ==
  /\ [](\A p \in procs :
          (p.kind \in Teardowns /\ p.pc \in {"closing", "teardown", "wait"}) =>
            (~client[p.c].closeHook /\ ~client[p.c].errorHook))
  /\ [][\A q \in procs' \ procs : (q.kind = "restart" /\ q.pc = "rdestroy") =>
          /\ client[q.c].closeHook \/ client[q.c].errorHook
          /\ \A p \in procs : p.kind \in Teardowns => p.c # q.c]_vars

\* with recovery on, destroySession has closed the browser of a client and waits
\* for the disconnection; no restart runs
C31_Witness ==
  /\ recoverSessions
  /\ \E p \in procs : p.kind = "destroy" /\ p.pc = "wait" /\ client[p.c].closed
  /\ \A q \in procs : q.kind # "restart"

\* the invocations that replace a client: reloadSession and restartSession
Replacing == {"reload", "restart"}

\* C32: when reloadSession or a restart begins the initialization of the
\* replacement, the registry has no entry for the id; reloadSession always gets
\* that far, and a restart whose setupSession is answered "already exists" finds
\* a handle other than the one it replaces; once the replacement is registered
\* it is the only handle of the id, and a handle registered is always one whose
\* initialization has just resolved
C32_UnregisterFirst ==
  [][/\ \A p \in procs' \ procs : (p.kind \in Replacing /\ p.pc = "init") =>
          ~Has(sessions', p.id)
     /\ \A q \in procs \ procs' :
          /\ (q.kind = "reload" /\ q.pc = "closing") =>
               \E p \in procs' \ procs : p.kind = "reload" /\ p.pc = "init" /\ p.id = q.id
          /\ (q.kind = "restart" /\ q.pc = "rdestroy" /\ procs' = procs \ {q}) =>
               \E e \in sessions : e[1] = q.id /\ e[2] # q.c
          /\ (q.kind \in Replacing /\ q.pc = "init" /\ sessions' # sessions) =>
               {e \in sessions' : e[1] = q.id} = {<<q.id, q.c>>}
     /\ \A e \in sessions' \ sessions : client[e[2]].st = "init"]_vars

\* a reloadSession and a restart each await the initialization of a
\* replacement while the registry has no entry for their ids
C32_Witness ==
  /\ \E p \in procs : p.kind = "reload" /\ p.pc = "init" /\ ~Has(sessions, p.id)
  /\ \E p \in procs : p.kind = "restart" /\ p.pc = "init" /\ ~Has(sessions, p.id)

\* C33: the only pending expiry timer of a handle is the one of its most
\* recent 'qr' event, whose QR is the one stored; a stored QR is removed only
\* by the firing of its own timer
C33_QrTimeBoxed ==
  /\ [](\A c \in Handles : \A t \in client[c].timers :
          t = client[c].qrClearTimeout /\ t = client[c].qr)
  /\ [][\A c \in Handles : (client[c].qr # 0 /\ client'[c].qr = 0) =>
          /\ last'.kind = "qrexpire" /\ last'.data = client[c].qr
          /\ client[c].qr \in client[c].timers \ client'[c].timers]_vars

\* a 'qr' event has come while the post of an earlier 'qr' event is pending: its
\* QR is the one stored, and its timer the one pending
C33_Witness ==
  \E c \in Handles :
    /\ client[c].qr = 2 /\ client[c].timers = {2}
    /\ last.kind = "event" /\ last.res = "qr" /\ last.data = 2
    /\ \E p \in procs : p.kind = "webhook" /\ p.hook = "qr" /\ p.n = 1 /\ p.c = c

\* C34: a handle whose client has emitted 'authenticated' has no QR stored
C34_NoQrOnceAuthenticated ==
  \A c \in Handles : client[c].authenticated => client[c].qr = 0

\* the restarts that await the initialize() of a replacement for the id
Replacements(id) == {p \in procs : p.kind = "restart" /\ p.pc = "init" /\ p.id = id}

\* C35: the recovery listeners of a session start at most one replacement: no
\* two restarts await the initialize() of a client for the same id
C35_OneReplacement ==
  \A i \in Ids : Cardinality(Replacements(i)) <= 1

\* C40: with recovery on, once a restart has been started for a session the
\* session is registered again (or every one of the MaxClients clients is in
\* use, and no replacement can be constructed)
C40_RecoveryRetried ==
  (\E p \in procs : p.kind = "restart" /\ p.id = IdA)
    ~> (Has(sessions, IdA) \/ FreeHandles(client) = {})

\* C36: when destroySession or deleteSession returns for a session it tore
\* down, no invocation that is running for the id can register it: none awaits
\* an initialize() whose success would put the id back
C36_StaysAbsent ==
  (last.kind \in {"destroy", "delete"} /\ last.ret = "ok" /\ last.res # "absent") =>
    /\ ~Has(sessions, last.id)
    /\ \A p \in procs : p.id = last.id => ~ENABLED InitOk(p)

\* C37: when client.logout() or client.destroy() rejects in destroySession or
\* deleteSession, the handler throws to its caller and leaves the registry and
\* the folders as they were; such a handler removes the entry only from its
\* wait, which it reaches, when it asked a teardown, after that call returned
C37_ThrowKeepsEntry ==
  [][\A p \in procs \ procs' : p.kind \in {"destroy", "delete"} =>
       /\ (p.pc = "teardown" /\ last'.ret = "threw") =>
            /\ last'.kind = p.kind /\ last'.id = p.id /\ last'.res = p.issued
            /\ sessions' = sessions /\ fs' = fs
            /\ procs' = procs \ {p}
       /\ (<<p.id, p.c>> \in sessions \ sessions') =>
            /\ p.pc = "wait"
            /\ p.issued # "none" => client[p.c].st = "down"]_vars

\* the logout() that deleteSession asked has thrown: the entry and the folder
\* are there
C37_Witness ==
  /\ last.kind = "delete" /\ last.ret = "threw" /\ last.res = "logout"
  /\ Has(sessions, last.id) /\ Live(Get(sessions, last.id))
  /\ FolderOf(last.id) \in fs

\* the steps of a validateSession called on its own: it starts, moves on, ends,
\* or hands its result back
Checking ==
  \/ \E p \in (procs \ procs') \cup (procs' \ procs) : p.kind = "validate"
  \/ last'.kind = "validate"

\* C38: validateSession is read-only: no step of it adds, removes or replaces a
\* registry entry, changes a client (no teardown, no restart, no hook removed),
\* starts another operation or touches a folder, whatever it hands back
C38_CheckReadOnly ==
  [][Checking =>
       /\ sessions' = sessions
       /\ client' = client
       /\ fs' = fs /\ links' = links
       /\ \A p \in procs' \ procs : p.kind = "validate"
       /\ \A p \in procs \ procs' : p.kind = "validate"]_vars

\* a check has failed on the closed tab of a registered session, and the
\* session is still registered
C38_Witness ==
  /\ last.kind = "validate" /\ last.ret = "fail" /\ last.res = VTabClosed.message
  /\ Has(sessions, last.id) /\ client[Get(sessions, last.id)].closed

\* C39: when the admin terminate route answers 'Session terminated successfully'
\* for a session whose id was registered, the id is no longer registered and no
\* client of it is live
C39_TerminateTearsDown ==
  [][(/\ last'.kind = "terminate"
      /\ last'.res = "Session terminated successfully"
      /\ Has(sessions, last'.id)) =>
       /\ ~Has(sessions', last'.id)
       /\ \A c \in Handles : client'[c].id = last'.id => client'[c].st # "live"]_vars


====
